---- MODULE Spec2Model ----
(***************************************************************************)
(* Model of the Airbnb scraper API: the Express handler POST /api/scrape   *)
(* (src/server.js), and scrapeAirbnbListing / connectBrowser and the       *)
(* in-page extraction and filtering code (src/index.js, lines 278-716).    *)
(*                                                                         *)
(* JavaScript strings are TLA+ strings; TLC evaluates Len, SubSeq, Tail    *)
(* and \o on them, so includes/split/trim/toLowerCase/parseInt are         *)
(* computed character by character as the engine computes them.            *)
(* An async function runs synchronously up to its first await, so the code *)
(* between two awaits is one atomic action; every await is a separate      *)
(* action at which other requests may interleave and at which the awaited  *)
(* promise may reject.                                                     *)
(***************************************************************************)
EXTENDS Integers, Sequences, FiniteSets, TLC

VARIABLES
    env,        \* process.env: the five variables the scraper reads
    bootEnv,    \* process.env as it was when the server started (history)
    site,       \* the document the listing URL serves once rendered
    inbox,      \* per connection: the JSON body in flight, or NoRequest
    pc,         \* per request: the await the request is suspended at
    loc,        \* per request: locals of the handler and of scrapeAirbnbListing
    browser,    \* per request: the browser connectBrowser produced
    hist,       \* per request: call counters and outcomes (history)
    imagesData, \* per request: imagesData.images (index.js:527)
    images,     \* per request: filteredImages (index.js:660)
    result,     \* per request: value scrapeAirbnbListing returned, or NoResult
    response    \* per request: the HTTP response sent, or NoResponse

vars == <<env, bootEnv, site, inbox, pc, loc, browser, hist, imagesData,
          images, result, response>>

Requests == {"A", "B"}

(***************************************************************************)
(* JavaScript values                                                       *)
(***************************************************************************)
Undefined == [t |-> "undefined"]
Null == [t |-> "null"]
Bool(b) == [t |-> "boolean", b |-> b]
Num(s) == [t |-> "number", s |-> s]      \* a JSON number, by its String()
Str(s) == [t |-> "string", s |-> s]

\* String(v): the conversion parseInt and new URL apply to their argument
ToStr(v) ==
    CASE v.t = "undefined" -> "undefined"
      [] v.t = "null" -> "null"
      [] v.t = "boolean" -> IF v.b THEN "true" ELSE "false"
      [] OTHER -> v.s

\* !v for the values a request body or process.env can hold
Falsy(v) ==
    \/ v.t \in {"undefined", "null"}
    \/ v.t = "boolean" /\ ~v.b
    \/ v.t = "string" /\ v.s = ""
    \/ v.t = "number" /\ v.s \in {"0", "-0"}

CharAt(s, i) == SubSeq(s, i, i)

\* String.prototype.includes
Includes(hay, needle) ==
    LET h == hay
        n == Len(needle)
    IN  \E i \in 1..(Len(h) - n + 1) : SubSeq(h, i, i + n - 1) = needle

StartsWith(s, p) == Len(s) >= Len(p) /\ SubSeq(s, 1, Len(p)) = p

\* s.split(sep)[0] for a one-character separator
RECURSIVE SplitFirst(_, _)
SplitFirst(s, sep) ==
    IF s = "" \/ CharAt(s, 1) = sep THEN ""
    ELSE CharAt(s, 1) \o SplitFirst(Tail(s), sep)

UpperChars == "ABCDEFGHIJKLMNOPQRSTUVWXYZ"
LowerChars == "abcdefghijklmnopqrstuvwxyz"
Digits == "0123456789"

UpperSet == {CharAt(UpperChars, i) : i \in 1..26}
LowerSet == {CharAt(LowerChars, i) : i \in 1..26}
DigitSet == {CharAt(Digits, i) : i \in 1..10}
LowerOf == [c \in UpperSet |->
               CharAt(LowerChars, CHOOSE i \in 1..26 : c = CharAt(UpperChars, i))]
ValueOf == [c \in DigitSet |-> CHOOSE d \in 0..9 : c = CharAt(Digits, d + 1)]

IsLetter(c) == c \in UpperSet \/ c \in LowerSet
IsDigit(c) == c \in DigitSet
DigitVal(c) == ValueOf[c]

LowerChar(c) == IF c \in UpperSet THEN LowerOf[c] ELSE c

\* String.prototype.toLowerCase
RECURSIVE ToLowerCase(_)
ToLowerCase(s) ==
    IF s = "" THEN "" ELSE LowerChar(CharAt(s, 1)) \o ToLowerCase(Tail(s))

RECURSIVE TrimStart(_)
TrimStart(s) == IF s # "" /\ CharAt(s, 1) = " " THEN TrimStart(Tail(s)) ELSE s

RECURSIVE TrimEnd(_)
TrimEnd(s) ==
    IF s # "" /\ CharAt(s, Len(s)) = " " THEN TrimEnd(SubSeq(s, 1, Len(s) - 1)) ELSE s

\* String.prototype.trim
Trim(s) == TrimEnd(TrimStart(s))

\* the run of decimal digits at the start of s
RECURSIVE LeadingDigits(_)
LeadingDigits(s) ==
    IF s # "" /\ IsDigit(CharAt(s, 1))
    THEN CharAt(s, 1) \o LeadingDigits(Tail(s))
    ELSE ""

RECURSIVE DecimalValue(_)
DecimalValue(d) ==
    IF d = "" THEN 0
    ELSE 10 * DecimalValue(SubSeq(d, 1, Len(d) - 1)) + DigitVal(CharAt(d, Len(d)))

NaN == [nan |-> TRUE, val |-> 0]

\* parseInt(v) in radix 10: String(v), skip leading blanks, an optional sign,
\* then the longest run of digits; NaN when there is no digit.
ParseInt(v) ==
    LET s == TrimStart(ToStr(v))
        neg == s # "" /\ CharAt(s, 1) = "-"
        body == IF s # "" /\ CharAt(s, 1) \in {"-", "+"} THEN Tail(s) ELSE s
        d == LeadingDigits(body)
    IN  IF d = "" THEN NaN
        ELSE [nan |-> FALSE, val |-> IF neg THEN 0 - DecimalValue(d) ELSE DecimalValue(d)]

\* Array.prototype.slice(0, end) for an integer end (a negative end counts
\* from the end of the array)
Slice0(seq, end) ==
    LET k == IF end < 0 THEN (IF Len(seq) + end < 0 THEN 0 ELSE Len(seq) + end)
             ELSE (IF end > Len(seq) THEN Len(seq) ELSE end)
    IN  SubSeq(seq, 1, k)

(***************************************************************************)
(* validateAirbnbUrl                                                       *)
(***************************************************************************)
\* the run of "/" and "\" after the scheme of a special URL is skipped
RECURSIVE SkipSlashes(_)
SkipSlashes(s) ==
    IF s # "" /\ CharAt(s, 1) \in {"/", "\\"} THEN SkipSlashes(Tail(s)) ELSE s

\* the authority of a special URL ends at the first "/", "\", "?" or "#"
RECURSIVE Authority(_)
Authority(s) ==
    IF s = "" \/ CharAt(s, 1) \in {"/", "\\", "?", "#"} THEN ""
    ELSE CharAt(s, 1) \o Authority(Tail(s))

\* the credentials of an authority end at its last "@"
RECURSIVE AfterUserinfo(_)
AfterUserinfo(a) == IF Includes(a, "@") THEN AfterUserinfo(Tail(a)) ELSE a

\* new URL(url).hostname for http(s) URLs without a base: String(url) is
\* trimmed, the scheme is matched case-insensitively, the host is the authority
\* without credentials and port, lower-cased; "" stands for the TypeError
\* new URL throws (no scheme, empty host, a port that is not a number).
Hostname(url) ==
    LET s == Trim(ToStr(url))
        low == ToLowerCase(s)
        rest == IF StartsWith(low, "https:") THEN SubSeq(s, 7, Len(s))
                ELSE IF StartsWith(low, "http:") THEN SubSeq(s, 6, Len(s))
                ELSE ""
        hostport == AfterUserinfo(Authority(SkipSlashes(rest)))
        host == SplitFirst(hostport, ":")
        port == SubSeq(hostport, Len(host) + 2, Len(hostport))
    IN  IF LeadingDigits(port) # port THEN "" ELSE ToLowerCase(host)

AllLetters(s) == \A i \in 1..Len(s) : IsLetter(CharAt(s, i))

\* variant: the pattern without its closing $ anchor
airbnbDomainPatternUnanchored(host) ==
    LET h == ToLowerCase(host)
        a == IF StartsWith(h, "www.") THEN SubSeq(h, 5, Len(h)) ELSE h
        tld == SubSeq(a, 8, Len(a))
    IN  /\ StartsWith(a, "airbnb.")
        /\ \/ StartsWith(tld, "com")
           \/ StartsWith(tld, "co.") /\ Len(tld) >= 5 /\ AllLetters(SubSeq(tld, 4, 5))
           \/ Len(tld) >= 2 /\ AllLetters(SubSeq(tld, 1, 2))

\* /^(www\.)?airbnb\.(com|co\.[a-z]{2}|[a-z]{2,3})$/i
airbnbDomainPattern(host) ==
    LET h == ToLowerCase(host)
        a == IF StartsWith(h, "www.") THEN SubSeq(h, 5, Len(h)) ELSE h
        tld == SubSeq(a, 8, Len(a))
    IN  /\ StartsWith(a, "airbnb.")
        /\ \/ tld = "com"
           \/ StartsWith(tld, "co.") /\ Len(tld) = 5 /\ AllLetters(SubSeq(tld, 4, 5))
           \/ Len(tld) \in {2, 3} /\ AllLetters(tld)

validateAirbnbUrl(url) ==
    LET host == Hostname(url)
    IN  host # "" /\ airbnbDomainPattern(host)

(***************************************************************************)
(* The rendered document, as far as the in-page scripts read it            *)
(*   modal  : an element matches [role="dialog"], [aria-modal="true"]      *)
(*   slides : the slide containers inside it, in document order; group is  *)
(*            role="group" (otherwise only div[class*="slide"]); heading   *)
(*            is the textContent of its first h3/h4 or Undefined; divs are *)
(*            the textContent of its div descendants, in document order    *)
(*   imgs   : every img element in document order: src, alt, whether it is *)
(*            inside the modal, and its nearest slide container (0: none)  *)
(*   head   : the elements extractTitle reads                              *)
(*   scroll : the container the scroller picks ([role="dialog"], else      *)
(*            .modal-content, else body): its scrollHeight before any      *)
(*            scrolling, and the number of scroll increments that each     *)
(*            make it grow                                                 *)
(*   controls : the elements the activation script can select, in document *)
(*            order: tag, whether role="button", textContent, and the      *)
(*            aria-label, href and data-testid attributes (Undefined when  *)
(*            absent), and whether the element is inside                   *)
(*            [data-testid="photo-viewer-slideshow-desktop"]               *)
(* Image URLs are absolute, so the src property equals the src attribute.  *)
(* width and height are copied through unread and are left out.            *)
(***************************************************************************)
InModal(doc, img) == doc.modal /\ img.inModal

\* the selector img[src*="muscache.com"]
IsMediaImg(img) == Includes(img.src, "muscache.com")

\* img[src*="muscache.com"]:not([src*="profile"]):not([src*="user"])
IsSlideMainImg(img) ==
    /\ Includes(img.src, "muscache.com")
    /\ ~Includes(img.src, "profile")
    /\ ~Includes(img.src, "user")

\* img.src.split('?')[0]
cleanUrl(img) == SplitFirst(img.src, "?")

\* heading.textContent?.trim() || ''   (index.js:564-567 and 608-611)
HeadingText(slide) ==
    IF slide.heading.t = "string" THEN Trim(slide.heading.s) ELSE ""

\* a short label: index.js:574-577
IsShortLabel(text) ==
    /\ text # ""
    /\ Len(text) > 1
    /\ Len(text) < 30
    /\ ~Includes(text, "of")
    /\ ~Includes(text, "/")

\* the first div of the slide whose trimmed text is a short label (index.js:572-581)
RECURSIVE FirstLabel(_)
FirstLabel(divs) ==
    IF divs = <<>> THEN ""
    ELSE IF IsShortLabel(Trim(Head(divs))) THEN Trim(Head(divs))
    ELSE FirstLabel(Tail(divs))

\* the category Method 1 reads off a slide (index.js:561-582)
SlideCategory(slide) ==
    IF HeadingText(slide) # "" THEN HeadingText(slide) ELSE FirstLabel(slide.divs)

\* slide.querySelector(...): index of the first main image inside slide k, or 0
SlideMainImg(doc, k) ==
    LET hits == {i \in 1..Len(doc.imgs) :
                    /\ InModal(doc, doc.imgs[i])
                    /\ doc.imgs[i].slide = k
                    /\ IsSlideMainImg(doc.imgs[i])}
    IN  IF hits = {} THEN 0 ELSE CHOOSE i \in hits : \A j \in hits : i <= j

\* Method 1 (index.js:554-586): categoryMap after the slides 1..k were visited;
\* Map.set overwrites an earlier entry for the same key.
RECURSIVE categoryMap(_, _)
categoryMap(doc, k) ==
    IF k = 0 THEN << >>
    ELSE LET before == categoryMap(doc, k - 1)
             i == SlideMainImg(doc, k)
         IN  IF ~doc.slides[k].group \/ i = 0 THEN before
             ELSE (cleanUrl(doc.imgs[i]) :> SlideCategory(doc.slides[k])) @@ before

\* categoryMap.get(cleanUrl) || ''
MapGet(map, key) == IF key \in DOMAIN map THEN map[key] ELSE ""

\* index.js:606-612: the heading of the image's closest slide container
ContainerHeading(doc, img) ==
    IF img.slide = 0 THEN "" ELSE HeadingText(doc.slides[img.slide])

\* variant: the seenUrls test is missing
IsSkippedWithoutSeen(seenUrls, url) ==
    \/ Includes(url, "profile")
    \/ Includes(url, "user")
    \/ Includes(url, "platform-assets")

\* index.js:594-597 and 636-639
IsSkipped(seenUrls, url) ==
    \/ url \in seenUrls
    \/ Includes(url, "profile")
    \/ Includes(url, "user")
    \/ Includes(url, "platform-assets")

\* what both passes push: index.js:618-624 and 642-648
ImageEntry(url, img, category) ==
    [url |-> url \o "?im_w=1200", alt |-> img.alt, category |-> category]

\* Method 2 (index.js:589-625) over the modal images from position i on;
\* acc is [seenUrls, allImages]
RECURSIVE ModalPass(_, _, _, _)
ModalPass(doc, map, i, acc) ==
    IF i > Len(doc.imgs) THEN acc
    ELSE LET img == doc.imgs[i]
             url == cleanUrl(img)
             fromMap == MapGet(map, url)
             category == IF fromMap # "" THEN fromMap ELSE ContainerHeading(doc, img)
         IN  IF ~(InModal(doc, img) /\ IsMediaImg(img)) \/ IsSkipped(acc.seenUrls, url)
             THEN ModalPass(doc, map, i + 1, acc)
             ELSE ModalPass(doc, map, i + 1,
                      [seenUrls |-> acc.seenUrls \cup {url},
                       allImages |-> Append(acc.allImages,
                           ImageEntry(url, img, IF category # "" THEN category
                                                ELSE "interior"))])

\* Fallback (index.js:631-651) over every media image of the document
RECURSIVE FallbackPass(_, _, _)
FallbackPass(doc, i, acc) ==
    IF i > Len(doc.imgs) THEN acc
    ELSE LET img == doc.imgs[i]
             url == cleanUrl(img)
         IN  IF ~IsMediaImg(img) \/ IsSkipped(acc.seenUrls, url)
             THEN FallbackPass(doc, i + 1, acc)
             ELSE FallbackPass(doc, i + 1,
                      [seenUrls |-> acc.seenUrls \cup {url},
                       allImages |-> Append(acc.allImages,
                           ImageEntry(url, img, "interior"))])

\* variant: the whole-document scan runs after the modal passes whatever
\* they produced
ExtractImagesAlwaysFallback(doc) ==
    LET start == [seenUrls |-> {}, allImages |-> <<>>]
        modal == IF doc.modal
                 THEN ModalPass(doc, categoryMap(doc, Len(doc.slides)), 1, start)
                 ELSE start
    IN  FallbackPass(doc, 1, modal).allImages

\* imagesData.images (index.js:527-657)
ExtractImages(doc) ==
    LET start == [seenUrls |-> {}, allImages |-> <<>>]
        modal == IF doc.modal
                 THEN ModalPass(doc, categoryMap(doc, Len(doc.slides)), 1, start)
                 ELSE start
    IN  IF Len(modal.allImages) = 0
        THEN FallbackPass(doc, 1, modal).allImages
        ELSE modal.allImages

(***************************************************************************)
(* Category filter (index.js:659-679)                                      *)
(***************************************************************************)
exteriorKeywords ==
    {"balcony", "balcon", "balcón", "exterior", "outdoor", "outside",
     "patio", "terrace", "garden", "yard", "pool", "view from",
     "street", "building", "neighbourhood", "neighborhood",
     "entrance", "façade", "facade", "roof", "aerial", "city view"}

\* variant: only the category is matched, the alt text is ignored
isExteriorCategoryOnly(img) ==
    \E keyword \in exteriorKeywords : Includes(ToLowerCase(img.category), keyword)

\* index.js:669-670
isExterior(img) ==
    LET checkText == ToLowerCase(img.category \o " " \o img.alt)
    IN  \E keyword \in exteriorKeywords : Includes(checkText, keyword)

\* variant: the kept images come out in reverse order
RECURSIVE filteredImagesReversed(_)
filteredImagesReversed(imgs) ==
    IF imgs = <<>> THEN <<>>
    ELSE IF isExterior(Head(imgs)) THEN filteredImagesReversed(Tail(imgs))
    ELSE filteredImagesReversed(Tail(imgs)) \o <<Head(imgs)>>

\* Array.prototype.filter with the callback of index.js:660-677
RECURSIVE filteredImages(_)
filteredImages(imgs) ==
    IF imgs = <<>> THEN <<>>
    ELSE IF isExterior(Head(imgs)) THEN filteredImages(Tail(imgs))
    ELSE <<Head(imgs)>> \o filteredImages(Tail(imgs))

(***************************************************************************)
(* extractTitle (index.js:378-391)                                         *)
(***************************************************************************)
extractTitle(doc) ==
    IF doc.head.h1.t = "string" THEN Trim(doc.head.h1.s)
    ELSE IF doc.head.h2.t = "string" THEN Trim(doc.head.h2.s)
    ELSE IF doc.head.og.t = "string" THEN doc.head.og.s
    ELSE Trim(SplitFirst(doc.head.title, "·"))

(***************************************************************************)
(* Gallery activation: the script of index.js:446-491                      *)
(***************************************************************************)
\* (el.getAttribute(name) || '').toLowerCase()
AttrLower(v) == IF v.t = "string" THEN ToLowerCase(v.s) ELSE ""

\* variant: the contact_host exclusion is missing
isPhotoTriggerWithoutExclusion(el) ==
    LET text == ToLowerCase(el.text)
        aria == AttrLower(el.aria)
        href == AttrLower(el.href)
    IN  \/ Includes(text, "photo") \/ Includes(text, "picture") \/ Includes(text, "foto")
        \/ Includes(aria, "photo")
        \/ Includes(href, "/photos")

\* index.js:447-460; /photos?|pictures?|fotos?/ matches a text iff it contains
\* "photo", "picture" or "foto", and /photos?/ iff it contains "photo"
isPhotoTrigger(el) ==
    LET text == ToLowerCase(el.text)
        aria == AttrLower(el.aria)
        href == AttrLower(el.href)
        hasPhotoWords ==
            \/ Includes(text, "photo") \/ Includes(text, "picture") \/ Includes(text, "foto")
            \/ Includes(aria, "photo")
        isPhotosLink == Includes(href, "/photos")
    IN  IF Includes(href, "/contact_host/") THEN FALSE
        ELSE hasPhotoWords \/ isPhotosLink

\* index.js:463-471
explicitSelectors ==
    <<"button[aria-label*=\"photo\" i]",
      "button[aria-label*=\"photos\" i]",
      "button[aria-label*=\"show all\" i]",
      "[data-testid*=\"photo\" i]",
      "[data-testid*=\"photos\" i]",
      "[data-testid=\"photo-viewer-slideshow-desktop\"] button",
      "a[href*=\"/photos\"]">>

\* whether el matches explicitSelectors[k]; the i flag makes the attribute
\* test case-insensitive, the href test of the last selector is case-sensitive
MatchesSelector(k, el) ==
    CASE k = 1 -> el.tag = "button" /\ Includes(AttrLower(el.aria), "photo")
      [] k = 2 -> el.tag = "button" /\ Includes(AttrLower(el.aria), "photos")
      [] k = 3 -> el.tag = "button" /\ Includes(AttrLower(el.aria), "show all")
      [] k = 4 -> Includes(AttrLower(el.testid), "photo")
      [] k = 5 -> Includes(AttrLower(el.testid), "photos")
      [] k = 6 -> el.tag = "button" /\ el.inViewer
      [] OTHER -> el.tag = "a" /\ el.href.t = "string" /\ Includes(el.href.s, "/photos")

\* document.querySelector(explicitSelectors[k]): the first match, or 0
QuerySelector(doc, k) ==
    LET hits == {i \in 1..Len(doc.controls) : MatchesSelector(k, doc.controls[i])}
    IN  IF hits = {} THEN 0 ELSE CHOOSE i \in hits : \A j \in hits : i <= j

NoClick == [index |-> 0, value |-> Null]

\* Strategy 1 (index.js:473-479) from selector k on
RECURSIVE ExplicitStrategy(_, _)
ExplicitStrategy(doc, k) ==
    IF k > Len(explicitSelectors) THEN NoClick
    ELSE LET i == QuerySelector(doc, k)
         IN  IF i # 0 /\ isPhotoTrigger(doc.controls[i])
             THEN [index |-> i, value |-> Str("selector:" \o explicitSelectors[k])]
             ELSE ExplicitStrategy(doc, k + 1)

\* the selector 'button, [role="button"], a[href]'
IsClickable(el) ==
    el.tag = "button" \/ el.role \/ (el.tag = "a" /\ el.href.t = "string")

\* Strategy 2 (index.js:482-487)
CandidateStrategy(doc) ==
    LET candidates == {i \in 1..Len(doc.controls) :
                          IsClickable(doc.controls[i]) /\ isPhotoTrigger(doc.controls[i])}
    IN  IF candidates = {} THEN NoClick
        ELSE [index |-> CHOOSE i \in candidates : \A j \in candidates : i <= j,
              value |-> Str("candidate:photos-match")]

\* index.js:446-491: the element the script clicks (0: none) and the value
\* it returns
photoButtonClicked(doc) ==
    IF ExplicitStrategy(doc, 1).index # 0 THEN ExplicitStrategy(doc, 1)
    ELSE CandidateStrategy(doc)

(***************************************************************************)
(* State of a request                                                      *)
(***************************************************************************)
NoRequest == [t |-> "none"]
NoResult == [t |-> "none"]
NoResponse == [status |-> 0]
NoOverride == [def |-> FALSE, val |-> 0]      \* maxImagesOverride = undefined

NoBrowser == [kind |-> "none", proxyServer |-> FALSE, open |-> FALSE, closeCalls |-> 0]

InitLoc ==
    [proxyOverride |-> Undefined, maxImagesOverride |-> NoOverride,
     useBrightDataBrowser |-> FALSE, useProxy |-> FALSE, credentials |-> FALSE,
     timeout |-> 0, title |-> "", err |-> "none",
     previousHeight |-> 0, currentHeight |-> 0,   \* locals of the scroller
     scrollTop |-> 0]                             \* scrollContainer.scrollTop

InitHist ==
    [scrape |-> "notcalled", attach |-> 0, attachFailed |-> FALSE,
     launch |-> 0, launchFailed |-> FALSE, authenticate |-> 0,
     launchProxyArg |-> FALSE, \* the launch call carried --proxy-server
     clicks |-> <<>>,          \* the elements el.click() was called on
     scrollCycles |-> 0,       \* iterations of the scroll loop
     caught |-> "none"]        \* the error the outer catch block received

DefaultMaxImages == 100
LocalTimeout == 30000
RemoteTimeout == 120000

(***************************************************************************)
(* scrapeAirbnbListing: the synchronous prefix (index.js:396-403) and      *)
(* connectBrowser up to its first await (index.js:325-349/364)             *)
(***************************************************************************)
\* variant: the override is dropped and process.env is left as it was
EnvIgnoringOverride(e, useProxyOverride) == e

\* variant: the override is written to both flags
EnvAfterOverrideBothFlags(e, useProxyOverride) ==
    IF useProxyOverride.t = "boolean"
    THEN [e EXCEPT !.USE_PROXY = Str(ToStr(useProxyOverride)),
                   !.USE_BRIGHTDATA_BROWSER = Str(ToStr(useProxyOverride))]
    ELSE e

\* index.js:398-401: process.env after the override is applied
EnvAfterOverride(e, useProxyOverride) ==
    IF useProxyOverride.t = "boolean"
    THEN [e EXCEPT !.USE_PROXY = Str(ToStr(useProxyOverride))]
    ELSE e

\* index.js:326-332: the configuration connectBrowser reads from process.env
ConnectionConfig(e) ==
    [useBrightDataBrowser |-> e.USE_BRIGHTDATA_BROWSER = Str("true"),
     useProxy |-> e.USE_PROXY = Str("true"),
     credentials |-> ~Falsy(e.PROXY_USERNAME) /\ ~Falsy(e.PROXY_PASSWORD)]

\* variant: the failed attach is retried instead of falling back
AfterAttachFailureRetry == "attach"

\* index.js:347-353: what connectBrowser does when the remote attach rejects
AfterAttachFailure == "launch"

\* variant: a rejection of the activation script reaches the outer catch
OnThrowGalleryFatal(step) ==
    CASE step = "intercept" -> "setUserAgent"
      [] step = "escape" -> "close"
      [] OTHER -> "catch"

\* variant: a rejection of the activation script skips the scroller
OnThrowGallerySkipsScroll(step) ==
    CASE step = "intercept" -> "setUserAgent"
      [] step = "gallery" -> "extract"
      [] step = "escape" -> "close"
      [] OTHER -> "catch"

\* where a rejection of the awaited call of `step` continues: the inner
\* try/catch blocks (index.js:409-421, 444-501, 683-688) swallow it, the outer
\* one (index.js:405, 706) takes every other.
OnThrow(step) ==
    CASE step = "intercept" -> "setUserAgent"
      [] step = "gallery" -> "scroll"
      [] step = "escape" -> "close"
      [] OTHER -> "catch"

\* browser.close() (ok: the call resolved)
CloseCall(b, ok) ==
    [b EXCEPT !.closeCalls = @ + 1, !.open = IF ok THEN FALSE ELSE @]

\* variant: the catch block re-throws without closing the browser
CatchCloseMissing(b, ok) == b

\* index.js:707: the browser after the catch block's cleanup
CatchClose(b, ok) == CloseCall(b, ok)

\* index.js:693: maxImagesOverride || parseInt(process.env.MAX_IMAGES) || 100
ResolveMaxImages(override, envMaxImages) ==
    LET parsed == ParseInt(envMaxImages)
    IN  IF override.def /\ override.val # 0 THEN override.val
        ELSE IF ~parsed.nan /\ parsed.val # 0 THEN parsed.val
        ELSE DefaultMaxImages

\* variant: totalImages counts the capped gallery
ScrapeResultCappedTotal(url, l, imgs, maxImages) ==
    [t |-> "result",
     url |-> url,
     proxyUsed |-> l.useProxy \/ l.useBrightDataBrowser,
     title |-> l.title,
     totalImages |-> Len(Slice0(imgs, maxImages)),
     gallery |-> Slice0(imgs, maxImages)]

\* index.js:696-704: the value scrapeAirbnbListing returns
ScrapeResult(url, l, imgs, maxImages) ==
    [t |-> "result",
     url |-> url,
     proxyUsed |-> l.useProxy \/ l.useBrightDataBrowser,
     title |-> l.title,
     totalImages |-> Len(imgs),
     gallery |-> Slice0(imgs, maxImages)]

(***************************************************************************)
(* POST /api/scrape (server.js:14-83)                                      *)
(***************************************************************************)
\* server.js:41-51: the parsed maxImages, or "invalid"
ParseMaxImages(maxImages) ==
    LET parsed == ParseInt(maxImages)
    IN  IF maxImages = Undefined THEN [ok |-> TRUE, override |-> NoOverride]
        ELSE IF parsed.nan \/ parsed.val < 1 THEN [ok |-> FALSE, override |-> NoOverride]
        ELSE [ok |-> TRUE, override |-> [def |-> TRUE, val |-> parsed.val]]

\* server.js:23-51: the 400 answer of the validation, or "" when the body passes
ValidationError(body) ==
    IF Falsy(body.url) THEN "URL is required"
    ELSE IF ~validateAirbnbUrl(body.url)
    THEN "Invalid Airbnb URL. Please provide a valid Airbnb listing URL."
    ELSE IF ~ParseMaxImages(body.maxImages).ok
    THEN "Invalid maxImages value. Must be a positive integer."
    ELSE ""

Reject(r, error) ==
    /\ response' = [response EXCEPT ![r] =
                       [status |-> 400, success |-> FALSE, error |-> error]]
    /\ pc' = [pc EXCEPT ![r] = "done"]
    /\ UNCHANGED <<env, loc, browser, hist>>

\* server.js:14-60 run to the first await: validation, then scrapeAirbnbListing
\* up to the await inside connectBrowser.
Receive(r) ==
    /\ pc[r] = "idle"
    /\ inbox[r] # NoRequest
    /\ LET body == inbox[r]
           proxyOverride == IF body.useProxy.t = "boolean" THEN body.useProxy
                            ELSE Undefined
           e == EnvAfterOverride(env, proxyOverride)
           cfg == ConnectionConfig(e)
       IN  IF ValidationError(body) # ""
           THEN Reject(r, ValidationError(body))
           ELSE /\ env' = e
                /\ loc' = [loc EXCEPT ![r] =
                      [@ EXCEPT !.proxyOverride = proxyOverride,
                                !.maxImagesOverride = ParseMaxImages(body.maxImages).override,
                                !.useBrightDataBrowser = cfg.useBrightDataBrowser,
                                !.useProxy = cfg.useProxy,
                                !.credentials = cfg.credentials]]
                /\ hist' = [hist EXCEPT ![r].scrape = "running"]
                /\ pc' = [pc EXCEPT ![r] =
                      IF cfg.useBrightDataBrowser THEN "attach" ELSE "launch"]
                /\ UNCHANGED <<browser, response>>
    /\ UNCHANGED <<bootEnv, site, inbox, imagesData, images, result>>

(***************************************************************************)
(* connectBrowser after its first await (index.js:341-371)                 *)
(***************************************************************************)
\* index.js:342-354: puppeteerCore.connect resolves or rejects
Attach(r) ==
    /\ pc[r] = "attach"
    /\ \E ok \in BOOLEAN :
        IF ok
        THEN /\ browser' = [browser EXCEPT ![r] =
                    [kind |-> "remote", proxyServer |-> FALSE, open |-> TRUE,
                     closeCalls |-> 0]]
             /\ hist' = [hist EXCEPT ![r].attach = @ + 1]
             /\ pc' = [pc EXCEPT ![r] = "newPage"]
        ELSE /\ hist' = [hist EXCEPT ![r].attach = @ + 1, ![r].attachFailed = TRUE]
             /\ pc' = [pc EXCEPT ![r] = AfterAttachFailure]
             /\ UNCHANGED browser
    /\ UNCHANGED <<env, bootEnv, site, inbox, loc, imagesData, images, result, response>>

\* variant: the fallback launch passes the proxy argument as well
LaunchWithProxyArgInFallback(l) == l.useProxy

\* whether the args of puppeteer.launch hold --proxy-server: never in the
\* fallback (index.js:349-353), iff useProxy otherwise (index.js:357-362)
LaunchWithProxyArg(l) == ~l.useBrightDataBrowser /\ l.useProxy

\* index.js:349-353 (fallback, no proxy argument) and 357-368: puppeteer.launch
\* resolves or rejects; a rejection leaves scrapeAirbnbListing before its try.
Launch(r) ==
    /\ pc[r] = "launch"
    /\ \E ok \in BOOLEAN :
        IF ok
        THEN /\ browser' = [browser EXCEPT ![r] =
                    [kind |-> "local",
                     proxyServer |-> LaunchWithProxyArg(loc[r]),
                     open |-> TRUE, closeCalls |-> 0]]
             /\ hist' = [hist EXCEPT ![r].launch = @ + 1,
                                     ![r].launchProxyArg = LaunchWithProxyArg(loc[r])]
             /\ pc' = [pc EXCEPT ![r] = "newPage"]
             /\ UNCHANGED loc
        ELSE /\ hist' = [hist EXCEPT ![r].launch = @ + 1, ![r].launchFailed = TRUE,
                                     ![r].launchProxyArg = LaunchWithProxyArg(loc[r]),
                                     ![r].scrape = "threw"]
             /\ loc' = [loc EXCEPT ![r].err = "launch"]
             /\ pc' = [pc EXCEPT ![r] = "respond"]
             /\ UNCHANGED browser
    /\ UNCHANGED <<env, bootEnv, site, inbox, imagesData, images, result, response>>

(***************************************************************************)
(* scrapeAirbnbListing: the try block (index.js:405-705), one action per   *)
(* awaited call. The unconditional setTimeout delays (index.js:441, 685)   *)
(* change nothing and are part of the step before them.                    *)
(***************************************************************************)
\* an awaited call that resolves (continue at `to`) or rejects
Awaited(r, step, to) ==
    /\ pc[r] = step
    /\ \E ok \in BOOLEAN :
        IF ok
        THEN /\ pc' = [pc EXCEPT ![r] = to]
             /\ UNCHANGED loc
        ELSE /\ pc' = [pc EXCEPT ![r] = OnThrow(step)]
             /\ loc' = [loc EXCEPT ![r].err =
                           IF OnThrow(step) = "catch" THEN step ELSE @]
    /\ UNCHANGED <<env, bootEnv, site, inbox, browser, hist, imagesData, images,
                   result, response>>

\* index.js:406
NewPage(r) == Awaited(r, "newPage", "intercept")

\* index.js:409-421
Intercept(r) == Awaited(r, "intercept", "setUserAgent")

\* index.js:424
SetUserAgent(r) == Awaited(r, "setUserAgent", "setViewport")

\* variant: the managed-browser flag is not consulted
NeedsAuthenticationIgnoringManaged(l) == l.useProxy /\ l.credentials

\* index.js:428: whether page.authenticate is called
NeedsAuthentication(l) ==
    l.useProxy /\ ~l.useBrightDataBrowser /\ l.credentials

\* index.js:436
NavigationTimeout(l) == IF l.useBrightDataBrowser THEN RemoteTimeout ELSE LocalTimeout

\* index.js:425-428
SetViewport(r) ==
    Awaited(r, "setViewport",
            IF NeedsAuthentication(loc[r]) THEN "authenticate" ELSE "goto")

\* index.js:429-432
Authenticate(r) ==
    /\ pc[r] = "authenticate"
    /\ hist' = [hist EXCEPT ![r].authenticate = @ + 1]
    /\ \E ok \in BOOLEAN :
        IF ok
        THEN /\ pc' = [pc EXCEPT ![r] = "goto"]
             /\ UNCHANGED loc
        ELSE /\ pc' = [pc EXCEPT ![r] = OnThrow("authenticate")]
             /\ loc' = [loc EXCEPT ![r].err = "authenticate"]
    /\ UNCHANGED <<env, bootEnv, site, inbox, browser, imagesData, images, result,
                   response>>

\* index.js:436-437
Goto(r) ==
    /\ pc[r] = "goto"
    /\ \E ok \in BOOLEAN :
        /\ pc' = [pc EXCEPT ![r] = IF ok THEN "waitForSelector" ELSE OnThrow("goto")]
        /\ loc' = [loc EXCEPT ![r].timeout = NavigationTimeout(loc[r]),
                              ![r].err = IF ok THEN @ ELSE "goto"]
    /\ UNCHANGED <<env, bootEnv, site, inbox, browser, hist, imagesData, images,
                   result, response>>

\* index.js:440-441
WaitForSelector(r) == Awaited(r, "waitForSelector", "gallery")

\* index.js:444-497: page.evaluate runs the activation script. The call
\* rejects before the script ran (ran = FALSE), rejects after it ran, or
\* resolves with the script's value; a truthy value starts the 4 s delay.
Gallery(r) ==
    /\ pc[r] = "gallery"
    /\ \E ran, ok \in BOOLEAN :
        LET script == photoButtonClicked(site)
            clicked == IF ran /\ script.index # 0 THEN <<script.index>> ELSE <<>>
            resolved == ran /\ ok
        IN  /\ hist' = [hist EXCEPT ![r].clicks = @ \o clicked]
            /\ pc' = [pc EXCEPT ![r] =
                   IF ~resolved THEN OnThrow("gallery")
                   ELSE IF ~Falsy(script.value) THEN "gallerySettle"
                   ELSE "scroll"]
            /\ loc' = [loc EXCEPT ![r].err =
                   IF ~resolved /\ OnThrow("gallery") = "catch" THEN "gallery" ELSE @]
    /\ UNCHANGED <<env, bootEnv, site, inbox, browser, imagesData, images,
                   result, response>>

\* index.js:493-497: the 4 s delay after a click
GallerySettle(r) ==
    /\ pc[r] = "gallerySettle"
    /\ pc' = [pc EXCEPT ![r] = "scroll"]
    /\ UNCHANGED <<env, bootEnv, site, inbox, loc, browser, hist, imagesData, images,
                   result, response>>

scrollStep == 300
ScrollGrowth == 600       \* what one increment adds to a growing container

\* scrollContainer.scrollHeight after k scroll increments
ScrollHeight(doc, k) ==
    doc.scroll.height +
        ScrollGrowth * (IF k < doc.scroll.grows THEN k ELSE doc.scroll.grows)

\* index.js:514: while (previousHeight !== currentHeight)
LoopContinues(previousHeight, currentHeight) == previousHeight # currentHeight

\* the scroller from the loop test on, up to its next await: either one more
\* iteration (index.js:515-517) that waits scrollDelay, or the reset of
\* scrollTop (index.js:522-523) that waits one second
ScrollerStep(r, l, cycles, measured) ==
    IF LoopContinues(l.previousHeight, measured)
    THEN /\ loc' = [loc EXCEPT ![r] =
                [l EXCEPT !.previousHeight = measured, !.currentHeight = measured,
                          !.scrollTop = @ + scrollStep]]
         /\ hist' = [hist EXCEPT ![r].scrollCycles = cycles + 1]
         /\ pc' = [pc EXCEPT ![r] = "scrollWait"]
    ELSE /\ loc' = [loc EXCEPT ![r] =
                [l EXCEPT !.currentHeight = measured, !.scrollTop = 0]]
         /\ hist' = [hist EXCEPT ![r].scrollCycles = cycles]
         /\ pc' = [pc EXCEPT ![r] = "scrollReset"]

\* a rejection of the page.evaluate call that runs the scroller
ScrollRejects(r) ==
    /\ pc' = [pc EXCEPT ![r] = OnThrow("scroll")]
    /\ loc' = [loc EXCEPT ![r].err = "scroll"]
    /\ UNCHANGED hist

\* index.js:504-517: the script starts: previousHeight = 0, currentHeight =
\* scrollHeight, then the first loop test
Scroll(r) ==
    /\ pc[r] = "scroll"
    /\ \/ ScrollerStep(r, [loc[r] EXCEPT !.previousHeight = 0], 0,
                        ScrollHeight(site, 0))
       \/ ScrollRejects(r)
    /\ UNCHANGED <<env, bootEnv, site, inbox, browser, imagesData, images,
                   result, response>>

\* index.js:517-519: scrollDelay is over, the height is measured again
ScrollWait(r) ==
    /\ pc[r] = "scrollWait"
    /\ \/ ScrollerStep(r, loc[r], hist[r].scrollCycles,
                        ScrollHeight(site, hist[r].scrollCycles))
       \/ ScrollRejects(r)
    /\ UNCHANGED <<env, bootEnv, site, inbox, browser, imagesData, images,
                   result, response>>

\* index.js:523-524: the last delay is over and the script returns
ScrollReset(r) ==
    /\ pc[r] = "scrollReset"
    /\ \/ /\ pc' = [pc EXCEPT ![r] = "extract"]
          /\ loc' = [loc EXCEPT ![r].previousHeight = 0, ![r].currentHeight = 0]
          /\ UNCHANGED hist
       \/ ScrollRejects(r)
    /\ UNCHANGED <<env, bootEnv, site, inbox, browser, imagesData, images,
                   result, response>>

\* index.js:527-679: the extraction script, then the filter
Extract(r) ==
    /\ pc[r] = "extract"
    /\ \E ok \in BOOLEAN :
        IF ok
        THEN /\ imagesData' = [imagesData EXCEPT ![r] = ExtractImages(site)]
             /\ images' = [images EXCEPT ![r] = filteredImages(imagesData'[r])]
             /\ pc' = [pc EXCEPT ![r] = "title"]
             /\ UNCHANGED loc
        ELSE /\ pc' = [pc EXCEPT ![r] = OnThrow("extract")]
             /\ loc' = [loc EXCEPT ![r].err = "extract"]
             /\ UNCHANGED <<imagesData, images>>
    /\ UNCHANGED <<env, bootEnv, site, inbox, browser, hist, result, response>>

\* index.js:680
Title(r) ==
    /\ pc[r] = "title"
    /\ \E ok \in BOOLEAN :
        IF ok
        THEN /\ loc' = [loc EXCEPT ![r].title = extractTitle(site)]
             /\ pc' = [pc EXCEPT ![r] = "escape"]
        ELSE /\ pc' = [pc EXCEPT ![r] = OnThrow("title")]
             /\ loc' = [loc EXCEPT ![r].err = "title"]
    /\ UNCHANGED <<env, bootEnv, site, inbox, browser, hist, imagesData, images,
                   result, response>>

\* index.js:683-688
Escape(r) == Awaited(r, "escape", "close")

\* index.js:690-704: browser.close(), then the result is assembled and returned
Close(r) ==
    /\ pc[r] = "close"
    /\ \E ok \in BOOLEAN :
        /\ browser' = [browser EXCEPT ![r] = CloseCall(@, ok)]
        /\ IF ok
           THEN /\ result' = [result EXCEPT ![r] =
                       ScrapeResult(inbox[r].url, loc[r], images[r],
                           ResolveMaxImages(loc[r].maxImagesOverride, env.MAX_IMAGES))]
                /\ hist' = [hist EXCEPT ![r].scrape = "returned"]
                /\ pc' = [pc EXCEPT ![r] = "respond"]
                /\ UNCHANGED loc
           ELSE /\ pc' = [pc EXCEPT ![r] = OnThrow("close")]
                /\ loc' = [loc EXCEPT ![r].err = "close"]
                /\ UNCHANGED <<result, hist>>
    /\ UNCHANGED <<env, bootEnv, site, inbox, imagesData, images, response>>

\* index.js:706-709: close the browser, then re-throw; a rejection of this
\* close replaces the error that is thrown
Catch(r) ==
    /\ pc[r] = "catch"
    /\ \E ok \in BOOLEAN :
        /\ browser' = [browser EXCEPT ![r] = CatchClose(@, ok)]
        /\ loc' = [loc EXCEPT ![r].err = IF ok THEN @ ELSE "catchClose"]
    /\ hist' = [hist EXCEPT ![r].scrape = "threw", ![r].caught = loc[r].err]
    /\ pc' = [pc EXCEPT ![r] = "respond"]
    /\ UNCHANGED <<env, bootEnv, site, inbox, imagesData, images, result, response>>

\* server.js:62-82: the handler resumes after await scrapeAirbnbListing(...)
Respond(r) ==
    /\ pc[r] = "respond"
    /\ response' = [response EXCEPT ![r] =
          IF hist[r].scrape = "returned"
          THEN [status |-> 200, success |-> TRUE, data |-> result[r]]
          ELSE [status |-> 500, success |-> FALSE,
                error |-> "Failed to scrape the listing", message |-> loc[r].err]]
    /\ pc' = [pc EXCEPT ![r] = "done"]
    /\ UNCHANGED <<env, bootEnv, site, inbox, loc, browser, hist, imagesData, images,
                   result>>

Next ==
    \E r \in Requests :
        \/ Receive(r)
        \/ Attach(r)
        \/ Launch(r)
        \/ NewPage(r)
        \/ Intercept(r)
        \/ SetUserAgent(r)
        \/ SetViewport(r)
        \/ Authenticate(r)
        \/ Goto(r)
        \/ WaitForSelector(r)
        \/ Gallery(r)
        \/ GallerySettle(r)
        \/ Scroll(r)
        \/ ScrollWait(r)
        \/ ScrollReset(r)
        \/ Extract(r)
        \/ Title(r)
        \/ Escape(r)
        \/ Close(r)
        \/ Catch(r)
        \/ Respond(r)

(***************************************************************************)
(* Inputs: request bodies, process environments, rendered documents        *)
(***************************************************************************)
ListingUrl == "https://www.airbnb.com/rooms/123"

UrlValues ==
    {Undefined, Str(""), Str("not-a-url"), Str(ListingUrl),
     Str("https://airbnb.fake.com/rooms/123")}

UseProxyValues == {Undefined, Bool(TRUE), Bool(FALSE), Str("true")}

MaxImagesValues ==
    {Undefined, Null, Num("0"), Num("1"), Num("2"), Num("-1"), Num("1.5"),
     Str("abc"), Str("2abc")}

Bodies ==
    [t : {"body"}, url : UrlValues, useProxy : UseProxyValues,
     maxImages : MaxImagesValues]

Environments ==
    [USE_PROXY : {Undefined, Str("true")},
     USE_BRIGHTDATA_BROWSER : {Undefined, Str("true")},
     MAX_IMAGES : {Undefined, Str("0"), Str("-1"), Str("2"), Str("abc")},
     PROXY_USERNAME : {Undefined, Str("user")},
     PROXY_PASSWORD : {Str("secret")}]

HeadPlain ==
    [h1 |-> Str(" Sunny loft "), h2 |-> Undefined, og |-> Undefined,
     title |-> "Sunny loft · Airbnb"]

Slide(group, heading, divs) == [group |-> group, heading |-> heading, divs |-> divs]
Control(tag, role, text, aria, href, testid, inViewer) ==
    [tag |-> tag, role |-> role, text |-> text, aria |-> aria, href |-> href,
     testid |-> testid, inViewer |-> inViewer]

ShowAllPhotos ==
    Control("button", FALSE, "Show all photos", Undefined, Undefined, Undefined, FALSE)
ContactHost ==
    Control("a", FALSE, "Contact host", Undefined, Str("/contact_host/123/send_message"),
            Undefined, FALSE)
Img(src, alt, inModal, slide) ==
    [src |-> src, alt |-> alt, inModal |-> inModal, slide |-> slide]

\* a gallery modal of five captioned slides, two of them tagged "Balcony"
FixtureFive ==
    [modal |-> TRUE,
     slides |-> <<Slide(TRUE, Str("Bedroom"), <<>>),
                  Slide(TRUE, Str("Balcony"), <<>>),
                  Slide(TRUE, Str(" Kitchen "), <<>>),
                  Slide(TRUE, Undefined, <<"2 of 5", "Balcony">>),
                  Slide(TRUE, Str("Living room"), <<>>)>>,
     imgs |-> <<Img("https://a0.muscache.com/1.jpg?im_w=720", "", TRUE, 1),
                Img("https://a0.muscache.com/2.jpg?im_w=720", "", TRUE, 2),
                Img("https://a0.muscache.com/3.jpg?im_w=720", "", TRUE, 3),
                Img("https://a0.muscache.com/4.jpg?im_w=720", "", TRUE, 4),
                Img("https://a0.muscache.com/5.jpg?im_w=720", "", TRUE, 5)>>,
     head |-> HeadPlain,
     scroll |-> [height |-> 900, grows |-> 1],
     controls |-> <<ContactHost, ShowAllPhotos>>]

\* a listing page without a modal: a repeated photo, an avatar, a foreign image
FixtureNoModal ==
    [modal |-> FALSE,
     slides |-> <<>>,
     imgs |-> <<Img("https://a0.muscache.com/1.jpg?im_w=720", "Bedroom", FALSE, 0),
                Img("https://a0.muscache.com/1.jpg?im_w=320", "Bedroom", FALSE, 0),
                Img("https://a0.muscache.com/user/9.jpg", "Host", FALSE, 0),
                Img("https://cdn.example.com/logo.png", "", FALSE, 0),
                Img("https://a0.muscache.com/2.jpg", "View from the Terrace", FALSE, 0)>>,
     head |-> HeadPlain,
     scroll |-> [height |-> 4200, grows |-> 0],
     controls |-> <<ContactHost>>]

Listings == {FixtureFive, FixtureNoModal}

Idle(bodies) ==
    /\ bootEnv = env
    /\ inbox \in bodies
    /\ pc = [r \in Requests |-> "idle"]
    /\ loc = [r \in Requests |-> InitLoc]
    /\ browser = [r \in Requests |-> NoBrowser]
    /\ hist = [r \in Requests |-> InitHist]
    /\ imagesData = [r \in Requests |-> <<>>]
    /\ images = [r \in Requests |-> <<>>]
    /\ result = [r \in Requests |-> NoResult]
    /\ response = [r \in Requests |-> NoResponse]

\* one request, any body, any environment
Init ==
    /\ env \in Environments
    /\ site \in Listings
    /\ Idle({[A |-> b, B |-> NoRequest] : b \in Bodies})

Spec == Init /\ [][Next]_vars

\* two requests in flight at once, each with or without a useProxy override
ConcurrentBodies ==
    [t : {"body"}, url : {Str(ListingUrl)},
     useProxy : {Undefined, Bool(TRUE), Bool(FALSE)}, maxImages : {Undefined}]

ConcurrentEnvironments ==
    [USE_PROXY : {Undefined, Str("true")},
     USE_BRIGHTDATA_BROWSER : {Undefined, Str("true")},
     MAX_IMAGES : {Undefined},
     PROXY_USERNAME : {Str("user")},
     PROXY_PASSWORD : {Str("secret")}]

InitConcurrent ==
    /\ env \in ConcurrentEnvironments
    /\ site = FixtureNoModal
    /\ Idle([Requests -> ConcurrentBodies])

\* the page of this scenario has no gallery trigger, so no request ever
\* waits the 4 s delay after a click
NextConcurrent ==
    \E r \in Requests :
        \/ Receive(r)
        \/ Attach(r)
        \/ Launch(r)
        \/ NewPage(r)
        \/ Intercept(r)
        \/ SetUserAgent(r)
        \/ SetViewport(r)
        \/ Authenticate(r)
        \/ Goto(r)
        \/ WaitForSelector(r)
        \/ Gallery(r)
        \/ Scroll(r)
        \/ ScrollWait(r)
        \/ ScrollReset(r)
        \/ Extract(r)
        \/ Title(r)
        \/ Escape(r)
        \/ Close(r)
        \/ Catch(r)
        \/ Respond(r)

SpecConcurrent == InitConcurrent /\ [][NextConcurrent]_vars

(***************************************************************************)
(* The extraction and filter steps over a bounded family of documents: a   *)
(* request that has reached the extraction script on an arbitrary page.    *)
(***************************************************************************)
MaxImgs == 3

ImgPool ==
    {Img("https://a0.muscache.com/1.jpg?im_w=720", "Bedroom image 1", TRUE, 1),
     Img("https://a0.muscache.com/1.jpg?im_w=320", "", TRUE, 2),
     Img("https://a0.muscache.com/2.jpg", "View from Balcony", TRUE, 0),
     Img("https://a0.muscache.com/2.jpg", "", FALSE, 0),
     Img("https://a0.muscache.com/3.jpg", "Living room", TRUE, 2),
     Img("https://a0.muscache.com/4.jpg?profile", "", TRUE, 1)}

SlideConfigs ==
    {<<Slide(TRUE, Str("Bedroom"), <<>>),
       Slide(TRUE, Undefined, <<"2 of 5", "Balcony">>)>>,
     <<Slide(TRUE, Str("  "), <<"1 / 5", "X", " Kitchen ">>),
       Slide(FALSE, Str("POOL"), <<>>)>>,
     <<Slide(TRUE, Str("Terrace"), <<>>),
       Slide(TRUE, Str("Bathroom"), <<>>)>>}

Documents ==
    [modal : BOOLEAN, slides : SlideConfigs,
     imgs : UNION {[1..n -> ImgPool] : n \in 0..MaxImgs}, head : {HeadPlain},
     scroll : {[height |-> 900, grows |-> 0]},
     controls : {<<ContactHost>>}]
    \cup Listings

PlainBody ==
    [t |-> "body", url |-> Str(ListingUrl), useProxy |-> Undefined,
     maxImages |-> Undefined]

PlainEnvironment ==
    [USE_PROXY |-> Undefined, USE_BRIGHTDATA_BROWSER |-> Undefined,
     MAX_IMAGES |-> Undefined, PROXY_USERNAME |-> Undefined,
     PROXY_PASSWORD |-> Undefined]

\* request A, launched locally without proxy, is about to run the extraction
InitExtract ==
    /\ env = PlainEnvironment
    /\ bootEnv = env
    /\ site \in Documents
    /\ inbox = [A |-> PlainBody, B |-> NoRequest]
    /\ pc = [A |-> "extract", B |-> "idle"]
    /\ loc = [A |-> [InitLoc EXCEPT !.timeout = LocalTimeout], B |-> InitLoc]
    /\ browser = [A |-> [NoBrowser EXCEPT !.kind = "local", !.open = TRUE],
                  B |-> NoBrowser]
    /\ hist = [A |-> [InitHist EXCEPT !.scrape = "running", !.launch = 1],
               B |-> InitHist]
    /\ imagesData = [r \in Requests |-> <<>>]
    /\ images = [r \in Requests |-> <<>>]
    /\ result = [r \in Requests |-> NoResult]
    /\ response = [r \in Requests |-> NoResponse]

NextExtract ==
    \E r \in Requests :
        \/ Extract(r)
        \/ Title(r)
        \/ Escape(r)
        \/ Close(r)
        \/ Catch(r)
        \/ Respond(r)

SpecExtract == InitExtract /\ [][NextExtract]_vars

(***************************************************************************)
(* One request under every combination of the two flags and of the proxy   *)
(* credentials, set, empty or missing.                                     *)
(***************************************************************************)
CredentialBodies ==
    [t : {"body"}, url : {Str(ListingUrl)},
     useProxy : {Undefined, Bool(TRUE), Bool(FALSE)}, maxImages : {Undefined}]

CredentialEnvironments ==
    [USE_PROXY : {Undefined, Str("true"), Str("false")},
     USE_BRIGHTDATA_BROWSER : {Undefined, Str("true")},
     MAX_IMAGES : {Undefined},
     PROXY_USERNAME : {Undefined, Str(""), Str("user")},
     PROXY_PASSWORD : {Undefined, Str(""), Str("secret")}]

InitCredentials ==
    /\ env \in CredentialEnvironments
    /\ site \in Listings
    /\ Idle({[A |-> b, B |-> NoRequest] : b \in CredentialBodies})

SpecCredentials == InitCredentials /\ [][Next]_vars

(***************************************************************************)
(* Gallery activation over a bounded family of pages: a request that has   *)
(* navigated and is about to run the activation script.                    *)
(***************************************************************************)
MaxControls == 2

ControlPool ==
    {ShowAllPhotos,
     ContactHost,
     Control("button", FALSE, "", Str("Show all Photos"), Undefined, Undefined, FALSE),
     Control("button", FALSE, "12", Str("Show all"), Undefined, Undefined, FALSE),
     Control("button", FALSE, "Next", Undefined, Undefined, Undefined, TRUE),
     Control("a", FALSE, "", Undefined, Str("/rooms/123/photos"), Undefined, FALSE),
     Control("a", FALSE, "Photos of the host", Str("Photos"),
             Str("/Contact_Host/9/photos"), Undefined, FALSE),
     Control("a", FALSE, "Fotos", Undefined, Str("#"), Undefined, FALSE),
     Control("div", TRUE, "Ver fotos", Undefined, Undefined, Undefined, FALSE),
     Control("div", FALSE, "Photo tour", Undefined, Undefined, Str("photo-tour"), FALSE),
     Control("div", FALSE, "Gallery", Undefined, Undefined, Str("PHOTOS-grid"), FALSE)}

GalleryPages ==
    {[FixtureNoModal EXCEPT !.controls = c] :
        c \in UNION {[1..n -> ControlPool] : n \in 0..MaxControls}}
    \cup Listings

\* request A, launched locally without proxy, has awaited waitForSelector
InitGallery ==
    /\ env = PlainEnvironment
    /\ bootEnv = env
    /\ site \in GalleryPages
    /\ inbox = [A |-> PlainBody, B |-> NoRequest]
    /\ pc = [A |-> "gallery", B |-> "idle"]
    /\ loc = [A |-> [InitLoc EXCEPT !.timeout = LocalTimeout], B |-> InitLoc]
    /\ browser = [A |-> [NoBrowser EXCEPT !.kind = "local", !.open = TRUE],
                  B |-> NoBrowser]
    /\ hist = [A |-> [InitHist EXCEPT !.scrape = "running", !.launch = 1],
               B |-> InitHist]
    /\ imagesData = [r \in Requests |-> <<>>]
    /\ images = [r \in Requests |-> <<>>]
    /\ result = [r \in Requests |-> NoResult]
    /\ response = [r \in Requests |-> NoResponse]

NextGallery ==
    \E r \in Requests :
        \/ Gallery(r)
        \/ GallerySettle(r)
        \/ Scroll(r)
        \/ ScrollWait(r)
        \/ ScrollReset(r)
        \/ Extract(r)
        \/ Title(r)
        \/ Escape(r)
        \/ Close(r)
        \/ Catch(r)
        \/ Respond(r)

SpecGallery == InitGallery /\ [][NextGallery]_vars

(***************************************************************************)
(* The scroller over a bounded family of scroll containers: a request that *)
(* has left gallery activation and is about to run the scroller.           *)
(***************************************************************************)
MaxGrows == 3

ScrollHeights == {0, 300, 1200}

ScrollPages ==
    {[FixtureNoModal EXCEPT !.scroll = [height |-> h, grows |-> n]] :
        h \in ScrollHeights, n \in 0..MaxGrows}
    \cup Listings

InitScroll ==
    /\ env = PlainEnvironment
    /\ bootEnv = env
    /\ site \in ScrollPages
    /\ inbox = [A |-> PlainBody, B |-> NoRequest]
    /\ pc = [A |-> "scroll", B |-> "idle"]
    /\ loc = [A |-> [InitLoc EXCEPT !.timeout = LocalTimeout], B |-> InitLoc]
    /\ browser = [A |-> [NoBrowser EXCEPT !.kind = "local", !.open = TRUE],
                  B |-> NoBrowser]
    /\ hist = [A |-> [InitHist EXCEPT !.scrape = "running", !.launch = 1],
               B |-> InitHist]
    /\ imagesData = [r \in Requests |-> <<>>]
    /\ images = [r \in Requests |-> <<>>]
    /\ result = [r \in Requests |-> NoResult]
    /\ response = [r \in Requests |-> NoResponse]

NextScroll ==
    \E r \in Requests :
        \/ Scroll(r)
        \/ ScrollWait(r)
        \/ ScrollReset(r)
        \/ Extract(r)
        \/ Title(r)
        \/ Escape(r)
        \/ Close(r)
        \/ Catch(r)
        \/ Respond(r)

SpecScroll == InitScroll /\ [][NextScroll]_vars

(***************************************************************************)
(* Title extraction over a bounded family of document heads: a request     *)
(* that has filtered its images and is about to call extractTitle.         *)
(***************************************************************************)
Heads ==
    [h1 : {Undefined, Str("  "), Str(" Sunny loft ")},
     h2 : {Undefined, Str(""), Str("Loft in Lisbon")},
     og : {Undefined, Str(""), Str("Loft by the sea")},
     title : {"", "Airbnb", "Sunny loft · Airbnb"}]

TitlePages == {[FixtureNoModal EXCEPT !.head = h] : h \in Heads} \cup Listings

InitTitle ==
    /\ env = PlainEnvironment
    /\ bootEnv = env
    /\ site \in TitlePages
    /\ inbox = [A |-> PlainBody, B |-> NoRequest]
    /\ pc = [A |-> "title", B |-> "idle"]
    /\ loc = [A |-> [InitLoc EXCEPT !.timeout = LocalTimeout], B |-> InitLoc]
    /\ browser = [A |-> [NoBrowser EXCEPT !.kind = "local", !.open = TRUE],
                  B |-> NoBrowser]
    /\ hist = [A |-> [InitHist EXCEPT !.scrape = "running", !.launch = 1,
                                      !.scrollCycles = 1],
               B |-> InitHist]
    /\ imagesData = [A |-> ExtractImages(site), B |-> <<>>]
    /\ images = [A |-> filteredImages(ExtractImages(site)), B |-> <<>>]
    /\ result = [r \in Requests |-> NoResult]
    /\ response = [r \in Requests |-> NoResponse]

NextTitle ==
    \E r \in Requests :
        \/ Title(r)
        \/ Escape(r)
        \/ Close(r)
        \/ Catch(r)
        \/ Respond(r)

SpecTitle == InitTitle /\ [][NextTitle]_vars

(***************************************************************************)
(* validateAirbnbUrl called directly, as the module exports it              *)
(* (index.js:712-716), over a bounded family of arguments.                 *)
(***************************************************************************)
\* index.js:284-292: the call returns what the pattern test gives, or false
\* from the catch block
Validate(r) ==
    /\ pc[r] = "idle"
    /\ inbox[r].t = "validateAirbnbUrl"
    /\ result' = [result EXCEPT ![r] =
                     [t |-> "value", value |-> validateAirbnbUrl(inbox[r].url)]]
    /\ pc' = [pc EXCEPT ![r] = "done"]
    /\ UNCHANGED <<env, bootEnv, site, inbox, loc, browser, hist, imagesData, images,
                   response>>

UrlSchemes == {"https://", "http://", "HTTPS://", "https:", ""}
UrlPrefixes == {"", "www.", "WWW.", "m.", "www", "host@"}
UrlNames == {"airbnb.", "AirBnB.", "airbnb", "xairbnb.", "airbnbs."}
UrlTlds ==
    {"com", "COM", "co.uk", "co.u1", "co.ukx", "co", "ie", "fr", "org", "info",
     "c", "c0m", "com.", "fake.com", "com.au"}
UrlSuffixes == {"", "/rooms/123", ":8080/rooms", ":x/", "?check_in=1", "#photos"}

ValidateArguments ==
    {Str(s \o p \o n \o t \o x) :
        s \in UrlSchemes, p \in UrlPrefixes, n \in UrlNames, t \in UrlTlds,
        x \in UrlSuffixes}
    \cup {Undefined, Null, Num("123"), Str(""), Str("not-a-url"),
          Str("https://airbnb.fake.com/rooms/123"),
          Str("https://airbnb.co.uk/rooms/123"),
          Str(" https://www.airbnb.com/rooms/123 ")}

InitValidate ==
    /\ env = PlainEnvironment
    /\ site = FixtureNoModal
    /\ Idle({[A |-> [t |-> "validateAirbnbUrl", url |-> u], B |-> NoRequest] :
                u \in ValidateArguments})

NextValidate == \E r \in Requests : Validate(r)

SpecValidate == InitValidate /\ [][NextValidate]_vars

(***************************************************************************)
(* Properties                                                              *)
(***************************************************************************)
Returned(r) == hist[r].scrape = "returned"
Threw(r) == hist[r].scrape = "threw"
Called(r) == hist[r].scrape # "notcalled"
GalleryOf(r) == result[r].gallery

\* 'url with everything from the first ? removed'
Canonical(url) == SplitFirst(url, "?")

\* the lower-cased category and alt text of an entry, joined as index.js:669 joins them
CheckText(img) == ToLowerCase(img.category \o " " \o img.alt)
MatchesAny(img, keywords) ==
    LET text == CheckText(img) IN \E k \in keywords : Includes(text, k)

\* C1: once scrapeAirbnbListing has returned or thrown, a browser that
\* connectBrowser produced has had close() called on it.
C1_CloseBeforeReturn ==
    \A r \in Requests :
        (Returned(r) \/ Threw(r)) /\ browser[r].kind # "none"
            => browser[r].closeCalls >= 1

\* a scrape that failed in the title step, after the browser was produced
C1_Witness ==
    \E r \in Requests :
        /\ Threw(r)
        /\ loc[r].err = "title"
        /\ browser[r].kind # "none"
        /\ browser[r].closeCalls = 1

\* C2: a request without a useProxy override connects with the HTTP-proxy
\* flag the process was started with, whatever another request overrode.
C2_DefaultKept ==
    \A a, b \in Requests :
        /\ a # b
        /\ inbox[a] # NoRequest /\ inbox[a].useProxy.t = "boolean"
        /\ inbox[b] # NoRequest /\ inbox[b].useProxy.t # "boolean"
        /\ Called(b)
        => loc[b].useProxy = (bootEnv.USE_PROXY = Str("true"))

\* C3: a request with a boolean useProxy connects with exactly that value:
\* connectBrowser reads it, and a local launch outside managed-browser mode
\* passes --proxy-server iff it is true.
C3_OverrideHonoured ==
    \A r \in Requests :
        inbox[r] # NoRequest /\ inbox[r].useProxy.t = "boolean" /\ Called(r)
        => /\ loc[r].useProxy = inbox[r].useProxy.b
           /\ (browser[r].kind = "local" /\ ~hist[r].attachFailed
                  => browser[r].proxyServer = inbox[r].useProxy.b)

\* both requests are in flight with opposite overrides, and the one that
\* asked for the proxy runs while process.env says "false"
C3_Witness ==
    /\ inbox["A"].useProxy = Bool(TRUE)
    /\ inbox["B"].useProxy = Bool(FALSE)
    /\ env.USE_PROXY = Str("false")
    /\ pc["A"] = "goto"
    /\ pc["B"] = "newPage"
    /\ browser["A"].proxyServer

\* the cap the claim names: the override if given, else the parsed MAX_IMAGES
\* if it is a usable number, else 100
ClaimedMaxImages(r) ==
    LET parsed == ParseInt(env.MAX_IMAGES)
    IN  IF loc[r].maxImagesOverride.def THEN loc[r].maxImagesOverride.val
        ELSE IF ~parsed.nan /\ parsed.val # 0 THEN parsed.val
        ELSE DefaultMaxImages

\* C4: the gallery of a result is no longer than totalImages and no longer
\* than maxImages, whatever MAX_IMAGES holds.
C4_GalleryWithinCap ==
    \A r \in Requests :
        Returned(r) =>
            /\ Len(GalleryOf(r)) <= result[r].totalImages
            /\ Len(GalleryOf(r)) <= ClaimedMaxImages(r)

\* C5: totalImages is the number of extracted images the exterior filter
\* keeps, before and independently of the cap.
C5_TotalIsFilteredCount ==
    \A r \in Requests :
        Returned(r) =>
            result[r].totalImages =
                Cardinality({i \in 1..Len(imagesData[r]) :
                                ~MatchesAny(imagesData[r][i], exteriorKeywords)})

\* a result whose gallery was cut by the cap below the filtered count
C5_Witness ==
    \E r \in Requests :
        /\ Returned(r)
        /\ Len(imagesData[r]) = 5
        /\ result[r].totalImages = 3
        /\ Len(GalleryOf(r)) = 1

\* C6: no two gallery entries of a result share a canonical URL.
C6_NoDuplicateCanonical ==
    \A r \in Requests :
        Returned(r) =>
            \A i, j \in 1..Len(GalleryOf(r)) :
                i # j => Canonical(GalleryOf(r)[i].url) # Canonical(GalleryOf(r)[j].url)

\* the modal pass ran on a page where two qualifying images share a source
\* up to the query string, and the result still has two entries
C6_Witness ==
    \E r \in Requests :
        /\ Returned(r)
        /\ site.modal
        /\ \E i, j \in 1..Len(site.imgs) :
              /\ i < j
              /\ InModal(site, site.imgs[i]) /\ InModal(site, site.imgs[j])
              /\ IsMediaImg(site.imgs[i])
              /\ site.imgs[i].src # site.imgs[j].src
              /\ cleanUrl(site.imgs[i]) = cleanUrl(site.imgs[j])
        /\ Len(GalleryOf(r)) = 2

\* the exterior keywords the claim lists
ClaimedExteriorKeywords ==
    {"balcony", "balcon", "patio", "terrace", "garden", "yard", "pool",
     "exterior", "outdoor", "outside", "street", "building", "neighbourhood",
     "neighborhood", "entrance", "facade", "roof", "aerial", "view from",
     "city view"}

\* C7: no gallery entry's lower-cased category and alt text contains an
\* exterior keyword.
C7_NoExteriorInGallery ==
    \A r \in Requests :
        Returned(r) =>
            \A i \in 1..Len(GalleryOf(r)) :
                ~MatchesAny(GalleryOf(r)[i], ClaimedExteriorKeywords)

\* an image was extracted whose alt text alone (mixed case) names a balcony,
\* and the result carries other images but not that one
C7_Witness ==
    \E r \in Requests :
        /\ Returned(r)
        /\ \E i \in 1..Len(imagesData[r]) :
              /\ imagesData[r][i].alt = "View from Balcony"
              /\ imagesData[r][i].category = "interior"
        /\ Len(GalleryOf(r)) >= 1

\* the k-th smallest element of a finite set of integers
KthSmallest(S, k) == CHOOSE i \in S : Cardinality({j \in S : j <= i}) = k

\* C8: the filtered list is exactly the extracted images that match no
\* exterior keyword, in extraction order.
C8_StableExactFilter ==
    \A r \in Requests :
        LET kept == {i \in 1..Len(imagesData[r]) :
                        ~MatchesAny(imagesData[r][i], exteriorKeywords)}
        IN  /\ Len(images[r]) = Cardinality(kept)
            /\ \A k \in 1..Len(images[r]) :
                   images[r][k] = imagesData[r][KthSmallest(kept, k)]

\* the five-image fixture: two slides tagged Balcony, three images kept
C8_Witness ==
    \E r \in Requests :
        /\ Returned(r)
        /\ site = FixtureFive
        /\ Len(imagesData[r]) = 5
        /\ Len(images[r]) = 3
        /\ result[r].totalImages = 3

\* C9: after a failed remote attach there is exactly one local launch and
\* no other attempt; a browser exists iff that launch succeeded, and a
\* failed launch is the error scrapeAirbnbListing throws to its caller.
C9_SingleFallbackLaunch ==
    \A r \in Requests :
        hist[r].attachFailed =>
            /\ loc[r].useBrightDataBrowser
            /\ hist[r].attach = 1
            /\ hist[r].launch = IF pc[r] = "launch" THEN 0 ELSE 1
            /\ browser[r].kind # "remote"
            /\ pc[r] # "launch" => (browser[r].kind = "local" <=> ~hist[r].launchFailed)
            /\ hist[r].launchFailed =>
                  /\ Threw(r)
                  /\ loc[r].err = "launch"
                  /\ pc[r] = "done" =>
                        response[r].status = 500 /\ response[r].message = "launch"

\* the attach failed, the one fallback launch succeeded and the scrape went on
C9_Witness ==
    \E r \in Requests :
        /\ hist[r].attachFailed
        /\ hist[r].launch = 1
        /\ browser[r].kind = "local"
        /\ response[r].status = 200

\* a decimal integer >= 1, given as a JSON number or as a numeral string
IsIntegerAtLeastOne(v) ==
    /\ v.t \in {"number", "string"}
    /\ v.s # ""
    /\ LeadingDigits(v.s) = v.s
    /\ DecimalValue(v.s) >= 1

\* the requests the claim says are refused
ClaimedInvalid(body) ==
    \/ body.url \in {Undefined, Null, Str("")}
    \/ ~validateAirbnbUrl(body.url)
    \/ body.maxImages # Undefined /\ ~IsIntegerAtLeastOne(body.maxImages)

\* C10: a request with a missing or invalid url, or with a maxImages that is
\* not an integer >= 1, gets 400 and success:false, and neither
\* scrapeAirbnbListing nor a browser is started for it.
C10_InvalidRejected ==
    \A r \in Requests :
        pc[r] # "idle" /\ ClaimedInvalid(inbox[r]) =>
            /\ response[r].status = 400
            /\ ~response[r].success
            /\ ~Called(r)
            /\ hist[r].attach = 0 /\ hist[r].launch = 0
            /\ browser[r].kind = "none"

\* the TLDs the claim admits: "com", "co." plus two letters, or two to three
\* letters
TwoLetters == {a \o b : a \in LowerSet, b \in LowerSet}
ClaimedTld(t) ==
    \/ t = "com"
    \/ \E cc \in TwoLetters : t = "co." \o cc
    \/ t \in TwoLetters
    \/ \E c \in LowerSet : \E ab \in TwoLetters : t = ab \o c

\* the hostnames the claim describes: an optional "www.", then "airbnb.", then
\* an admitted TLD
ClaimedHost(h) ==
    \E k \in 1..Len(h) :
        /\ SubSeq(h, 1, k) \in {"airbnb.", "www.airbnb."}
        /\ ClaimedTld(SubSeq(h, k + 1, Len(h)))

\* C11: validateAirbnbUrl returns a boolean for every argument; it is true
\* exactly when the argument parses as a URL whose lower-cased hostname is an
\* optional "www.", "airbnb." and an admitted TLD, and it is false for
\* 'https://airbnb.fake.com/rooms/123', 'not-a-url' and the empty string.
C11_ValidateExact ==
    \A r \in Requests :
        result[r].t = "value" =>
            /\ result[r].value \in BOOLEAN
            /\ result[r].value <=> ClaimedHost(Hostname(inbox[r].url))
            /\ inbox[r].url \in {Str("https://airbnb.fake.com/rooms/123"),
                                 Str("not-a-url"), Str("")}
                  => ~result[r].value

\* a country-code host in mixed case with a port was accepted
C11_Witness ==
    \E r \in Requests :
        /\ result[r].t = "value"
        /\ result[r].value
        /\ inbox[r].url = Str("HTTPS://WWW.AirBnB.co.uk:8080/rooms")

\* C12: when a pipeline step throws and the catch block runs, the error
\* scrapeAirbnbListing re-raises, and the message of the 500 response, is the
\* error of that step, also when browser.close() in the catch block throws.
C12_OriginalErrorKept ==
    \A r \in Requests :
        Threw(r) /\ hist[r].caught # "none" =>
            /\ loc[r].err = hist[r].caught
            /\ pc[r] = "done" => response[r].message = hist[r].caught

\* the two flags a single request connects with: USE_BRIGHTDATA_BROWSER as
\* the process holds it, USE_PROXY as the request overrides it or else as the
\* process was started with it
ManagedBrowserFlag == env.USE_BRIGHTDATA_BROWSER = Str("true")
HttpProxyFlag(r) ==
    IF inbox[r].useProxy.t = "boolean" THEN inbox[r].useProxy.b
    ELSE bootEnv.USE_PROXY = Str("true")

\* C13: a remote attach is attempted iff the managed-browser flag is on; a
\* launch carries --proxy-server iff the managed-browser flag is off and the
\* HTTP-proxy flag is on; with both flags on no launch, the fallback included,
\* carries it; with both off the one call is a local launch without proxy.
C13_ConnectionStrategy ==
    \A r \in Requests :
        Called(r) =>
            /\ (pc[r] = "attach" \/ hist[r].attach > 0) <=> ManagedBrowserFlag
            /\ hist[r].launch > 0 =>
                  (hist[r].launchProxyArg <=> ~ManagedBrowserFlag /\ HttpProxyFlag(r))
            /\ browser[r].proxyServer <=>
                  browser[r].kind = "local" /\ ~ManagedBrowserFlag /\ HttpProxyFlag(r)
            /\ ManagedBrowserFlag /\ HttpProxyFlag(r) =>
                  ~hist[r].launchProxyArg /\ ~browser[r].proxyServer
            /\ ~ManagedBrowserFlag /\ ~HttpProxyFlag(r) =>
                  /\ hist[r].attach = 0
                  /\ pc[r] = "launch" \/ hist[r].launch = 1
                  /\ ~hist[r].launchProxyArg

\* both flags on, the attach failed, and the fallback launched without proxy
C13_Witness ==
    \E r \in Requests :
        /\ hist[r].attachFailed
        /\ ManagedBrowserFlag /\ HttpProxyFlag(r)
        /\ hist[r].launch = 1
        /\ browser[r].kind = "local"
        /\ ~browser[r].proxyServer

\* C14: the timeout page.goto was called with is 120 seconds exactly when
\* the browser in use was attached remotely, and 30 seconds when it was
\* launched locally, the fallback launch after a failed attach included.
C14_TimeoutByBrowserKind ==
    \A r \in Requests :
        loc[r].timeout # 0 =>
            /\ loc[r].timeout = 120000 <=> browser[r].kind = "remote"
            /\ browser[r].kind = "local" => loc[r].timeout = 30000

\* a proxy credential that is set and not empty
NonEmpty(v) == v.t = "string" /\ Len(v.s) > 0

\* the configuration the claim names
ClaimedAuthentication(r) ==
    /\ HttpProxyFlag(r)
    /\ ~ManagedBrowserFlag
    /\ NonEmpty(env.PROXY_USERNAME)
    /\ NonEmpty(env.PROXY_PASSWORD)

\* C15: page.authenticate is called only when the HTTP-proxy flag is on, the
\* managed-browser flag is off and username and password are both non-empty,
\* and then at most once; a scrape that has gone on to page.goto has called
\* it iff that configuration holds.
C15_AuthenticateIffPlainProxy ==
    \A r \in Requests :
        Called(r) =>
            /\ hist[r].authenticate <= 1
            /\ hist[r].authenticate = 1 => ClaimedAuthentication(r)
            /\ loc[r].timeout # 0 =>
                  (hist[r].authenticate = 1 <=> ClaimedAuthentication(r))

\* a request that turned the proxy on by its override authenticated and
\* was answered 200
C15_Witness ==
    \E r \in Requests :
        /\ response[r].status = 200
        /\ inbox[r].useProxy = Bool(TRUE)
        /\ bootEnv.USE_PROXY = Undefined
        /\ hist[r].authenticate = 1

\* the element the activation script would click on the page, or 0
TriggerOf(doc) == photoButtonClicked(doc).index

\* C16: gallery activation never fails the scrape: whether the activation
\* script throws, finds no trigger or clicks one, the scrape goes on to the
\* scroller with no error recorded or propagated, and the 4-second delay is
\* started only in a step in which an element was clicked.
C16_GalleryNeverFails ==
    [][\A r \in Requests :
          /\ pc[r] = "gallery" /\ pc'[r] # "gallery" =>
                /\ pc'[r] \in {"gallerySettle", "scroll"}
                /\ loc'[r].err = "none"
                /\ hist'[r].scrape = "running"
                /\ TriggerOf(site) = 0 => pc'[r] = "scroll"
          /\ pc[r] = "gallerySettle" /\ pc'[r] # "gallerySettle" =>
                pc'[r] = "scroll" /\ loc'[r].err = "none"
          /\ pc'[r] = "gallerySettle" /\ pc[r] # "gallerySettle" =>
                /\ pc[r] = "gallery"
                /\ Len(hist[r].clicks) = 0 /\ Len(hist'[r].clicks) = 1
          /\ loc'[r].err # "gallery"
          /\ pc'[r] = "extract" => pc[r] \in {"scrollReset", "extract"}]_vars

\* the page has a trigger, the activation script threw before clicking it,
\* and the scrape was answered 200 with images all the same
C16_Witness ==
    \E r \in Requests :
        /\ response[r].status = 200
        /\ TriggerOf(site) # 0
        /\ hist[r].clicks = <<>>
        /\ Len(imagesData[r]) > 0

\* some button, role=button element or anchor with href satisfies the
\* photo-intent predicate
SomeClickableTrigger(doc) ==
    \E i \in 1..Len(doc.controls) :
        LET el == doc.controls[i]
        IN  /\ el.tag = "button" \/ el.role \/ (el.tag = "a" /\ el.href # Undefined)
            /\ isPhotoTrigger(el)

\* the first match of some explicit selector satisfies the predicate
SomeSelectorTrigger(doc) ==
    \E k \in 1..Len(explicitSelectors) :
        QuerySelector(doc, k) # 0 /\ isPhotoTrigger(doc.controls[QuerySelector(doc, k)])

\* what the claim says of every scrape, whatever is clicked when no clickable
\* element satisfies the predicate: at most one click, on an element that
\* satisfies the predicate and is no /contact_host/ link; if some clickable
\* element satisfies it the script has an element to click, and a scrape
\* whose script returned a click (it waits the 4 s) clicked exactly that one
ClickDiscipline(r) ==
    /\ Len(hist[r].clicks) <= 1
    /\ \A n \in 1..Len(hist[r].clicks) :
          LET el == site.controls[hist[r].clicks[n]]
          IN  /\ isPhotoTrigger(el)
              /\ ~Includes(AttrLower(el.href), "/contact_host/")
    /\ pc[r] \in {"gallery", "gallerySettle"} /\ SomeClickableTrigger(site)
          => TriggerOf(site) # 0
    /\ pc[r] = "gallerySettle" => hist[r].clicks = <<TriggerOf(site)>>

\* C17 as stated: at most one click, only on an element that satisfies the
\* predicate and never on a /contact_host/ link; exactly one click if some
\* button, role=button element or anchor with href satisfies the predicate,
\* and no click if none does.
C17_ClicksOnlyClickableTrigger ==
    \A r \in Requests :
        /\ ClickDiscipline(r)
        /\ ~SomeClickableTrigger(site) => hist[r].clicks = <<>>

\* C17, amended: as stated, except that nothing is clicked only if, besides,
\* no first match of an explicit selector satisfies the predicate; such a
\* match is clicked whatever its tag.
C17_ClicksOnlyTrigger ==
    \A r \in Requests :
        /\ ClickDiscipline(r)
        /\ ~SomeClickableTrigger(site) /\ ~SomeSelectorTrigger(site)
              => hist[r].clicks = <<>>
        /\ pc[r] \in {"gallery", "gallerySettle"} /\ SomeSelectorTrigger(site)
              => /\ TriggerOf(site) # 0
                 /\ \E k \in 1..Len(explicitSelectors) :
                        TriggerOf(site) = QuerySelector(site, k)

\* a page whose first control is a contact link that mentions photos and whose
\* second is a plain link with the text Fotos: the second one was clicked
C17_Witness ==
    \E r \in Requests :
        /\ Len(site.controls) = 2
        /\ site.controls[1].href = Str("/Contact_Host/9/photos")
        /\ site.controls[2].text = "Fotos"
        /\ hist[r].clicks = <<2>>
        /\ pc[r] = "gallerySettle"

\* the scroller of request r has converged: it waits its last delay or has
\* returned
ScrollerDone(r) ==
    pc[r] \in {"scrollReset", "extract", "title", "escape", "close"}

\* C18: on a container whose scrollHeight grows on each of the first N
\* increments and is constant afterwards the loop runs exactly N+1
\* iterations, whatever the initial height (0 included), and scrollTop is 0
\* afterwards.
C18_ScrollCycles ==
    \A r \in Requests :
        /\ hist[r].scrollCycles <= site.scroll.grows + 1
        /\ ScrollerDone(r) =>
              /\ hist[r].scrollCycles = site.scroll.grows + 1
              /\ loc[r].scrollTop = 0

\* the awaited calls of the pipeline from navigation on, in program order
PipelineSteps ==
    <<"goto", "waitForSelector", "gallery", "gallerySettle", "scroll",
      "scrollWait", "scrollReset", "extract", "title", "escape", "close">>
StepRank(step) ==
    IF \E i \in 1..Len(PipelineSteps) : PipelineSteps[i] = step
    THEN CHOOSE i \in 1..Len(PipelineSteps) : PipelineSteps[i] = step
    ELSE 0

\* C19: from navigation on, a scrape moves through navigation, gallery
\* activation, scroller, extraction and filter, title extraction and close in
\* that order or leaves for the error path; after gallery activation, whatever
\* its outcome, the scroller is next; the extraction starts only when the
\* scroller has finished, and the images are filtered before the title is read.
C19_StepOrder ==
    [][\A r \in Requests :
          /\ StepRank(pc[r]) > 0 /\ pc'[r] # pc[r] =>
                \/ StepRank(pc'[r]) > StepRank(pc[r])
                \/ pc'[r] \in {"catch", "respond"}
          /\ pc[r] \in {"gallery", "gallerySettle"} /\ pc'[r] # pc[r] =>
                pc'[r] \in {"gallerySettle", "scroll"}
          /\ pc[r] = "scroll" /\ pc'[r] # pc[r] =>
                pc'[r] \in {"scrollWait", "scrollReset", "catch"}
          /\ pc'[r] = "gallery" /\ pc[r] # "gallery" =>
                pc[r] = "waitForSelector" /\ loc[r].timeout # 0
          /\ pc'[r] = "extract" /\ pc[r] # "extract" =>
                pc[r] = "scrollReset" /\ loc[r].scrollTop = 0
          /\ imagesData'[r] # imagesData[r] => pc[r] = "extract"
          /\ pc'[r] = "title" /\ pc[r] # "title" =>
                /\ pc[r] = "extract"
                /\ images'[r] = filteredImages(imagesData'[r])
          /\ loc'[r].title # loc[r].title => pc[r] = "title" /\ pc'[r] = "escape"
          /\ pc'[r] = "close" /\ pc[r] # "close" => pc[r] = "escape"
          /\ browser'[r].closeCalls # browser[r].closeCalls =>
                pc[r] \in {"close", "catch"}]_vars

\* the five-slide page, with a trigger that was never clicked because the
\* activation script threw: the scroller ran its two iterations, the five
\* images were extracted, the title was read and the browser closed
C19_Witness ==
    \E r \in Requests :
        /\ Returned(r)
        /\ site = FixtureFive
        /\ hist[r].clicks = <<>>
        /\ hist[r].scrollCycles = 2
        /\ Len(imagesData[r]) = 5
        /\ result[r].title = "Sunny loft"
        /\ browser[r].closeCalls = 1

\* the four title sources in the order of the claim ("" when absent)
TitleSources(doc) ==
    <<IF doc.head.h1 = Undefined THEN "" ELSE Trim(doc.head.h1.s),
      IF doc.head.h2 = Undefined THEN "" ELSE Trim(doc.head.h2.s),
      IF doc.head.og = Undefined THEN "" ELSE doc.head.og.s,
      Trim(SplitFirst(doc.head.title, "·"))>>

\* the first non-empty source, or the last one
ClaimedTitle(doc) ==
    LET src == TitleSources(doc)
        filled == {i \in 1..4 : src[i] # ""}
    IN  IF filled = {} THEN src[4]
        ELSE src[CHOOSE i \in filled : \A j \in filled : i <= j]

\* C20: the title of a result is the first non-empty of h1 text, TITLE_DEFAULT
\* h2 text, og:title content and the document title without its suffix, also
\* when an earlier source exists but is empty; with only an og:title present
\* it is that tag's content.
C20_FirstNonEmptyTitle ==
    \A r \in Requests :
        Returned(r) =>
            /\ result[r].title = ClaimedTitle(site)
            /\ site.head.h1 = Undefined /\ site.head.h2 = Undefined
                   /\ site.head.og # Undefined /\ site.head.og.s # ""
                  => result[r].title = site.head.og.s

\* a source URL the claim allows: it carries the media-host marker and none of
\* the three excluded words anywhere, its query string included
ClaimedSource(src) ==
    /\ Includes(src, "muscache.com")
    /\ ~Includes(src, "profile")
    /\ ~Includes(src, "user")
    /\ ~Includes(src, "platform-assets")

\* the images of the page an extracted entry can stem from: those whose
\* source gives the entry's URL once the query string is dropped
SourcesOf(doc, entry) ==
    {k \in 1..Len(doc.imgs) : cleanUrl(doc.imgs[k]) = Canonical(entry.url)}

\* C21: every extracted image, from the modal pass or from the whole-document
\* fallback, stems from an image whose source URL contains 'muscache.com' and
\* contains none of 'profile', 'user', 'platform-assets', query string
\* included (stated for some image of the page that yields the entry's URL,
\* which the entry's actual source is one of).
C21_NoExcludedSource ==
    \A r \in Requests :
        \A i \in 1..Len(imagesData[r]) :
            \E k \in SourcesOf(site, imagesData[r][i]) :
                ClaimedSource(site.imgs[k].src)

\* the canonical URLs of the qualifying images of the page, of the modal only
\* or of the whole document
QualifyingUrls(doc, modalOnly) ==
    {cleanUrl(doc.imgs[k]) :
        k \in {j \in 1..Len(doc.imgs) :
                  /\ modalOnly => InModal(doc, doc.imgs[j])
                  /\ IsMediaImg(doc.imgs[j])
                  /\ ~IsSkipped({}, cleanUrl(doc.imgs[j]))}}

\* the modal-based passes produce zero images: there is no modal, or no image
\* of the modal qualifies
ModalYieldsNothing(doc) == QualifyingUrls(doc, TRUE) = {}

\* no label was recovered for an entry: its URL has no category from the
\* slides, and no image of the modal that yields it sits under a heading
NoLabelFor(doc, entry) ==
    /\ MapGet(categoryMap(doc, Len(doc.slides)), Canonical(entry.url)) = ""
    /\ \A k \in SourcesOf(doc, entry) :
           InModal(doc, doc.imgs[k]) => ContainerHeading(doc, doc.imgs[k]) = ""

\* C22: the whole-document scan contributes iff the modal passes produced
\* nothing (the extracted URLs are those of the whole document then, and those
\* of the modal alone otherwise); every image the scan adds has category
\* 'interior'; and every extracted image has a non-empty category, 'interior'
\* when no label was recovered for it.
C22_FallbackIffNoModalImage ==
    \A r \in Requests :
        Returned(r) =>
            LET urls == {Canonical(imagesData[r][i].url) :
                            i \in 1..Len(imagesData[r])}
            IN  /\ urls = QualifyingUrls(site, ~ModalYieldsNothing(site))
                /\ Cardinality(urls) = Len(imagesData[r])
                /\ \A i \in 1..Len(imagesData[r]) :
                       /\ imagesData[r][i].category # ""
                       /\ ModalYieldsNothing(site)
                              => imagesData[r][i].category = "interior"
                       /\ NoLabelFor(site, imagesData[r][i])
                              => imagesData[r][i].category = "interior"

\* the page has a modal with no qualifying image and a media image outside
\* it, and the scan of the whole document extracted that image as 'interior'
C22_Witness ==
    \E r \in Requests :
        /\ Returned(r)
        /\ site.modal
        /\ ModalYieldsNothing(site)
        /\ Len(imagesData[r]) = 1
        /\ imagesData[r][1].category = "interior"
        /\ \E k \in SourcesOf(site, imagesData[r][1]) : ~site.imgs[k].inModal

\* C23: a scrape call's useProxy override changes only USE_PROXY: the
\* managed-browser flag, and every other setting, keeps the value it had at
\* start-up, and a request with useProxy:false made while the managed-browser
\* flag is on still attaches to the managed browser.
C23_OverrideLeavesManagedFlag ==
    /\ \A key \in DOMAIN env \ {"USE_PROXY"} : env[key] = bootEnv[key]
    /\ \A r \in Requests :
           Called(r) /\ inbox[r].useProxy = Bool(FALSE)
                     /\ bootEnv.USE_BRIGHTDATA_BROWSER = Str("true")
               => pc[r] = "attach" \/ hist[r].attach = 1

\* a request with useProxy:false, made with the managed-browser flag on,
\* returned from the attached browser, and the override was written
C23_Witness ==
    \E r \in Requests :
        /\ Returned(r)
        /\ inbox[r].useProxy = Bool(FALSE)
        /\ bootEnv.USE_PROXY = Str("true")
        /\ env.USE_PROXY = Str("false")
        /\ env.USE_BRIGHTDATA_BROWSER = Str("true")
        /\ browser[r].kind = "remote"

\* C24: a returned result says proxyUsed only if its page came from a
\* browser launched with --proxy-server or from an attached managed browser,
\* and says false when the attach failed and the scrape ran on the fallback
\* launch.
C24_ProxyUsedMeansProxied ==
    \A r \in Requests :
        Returned(r) =>
            /\ result[r].proxyUsed =>
                  browser[r].kind = "remote" \/ browser[r].proxyServer
            /\ hist[r].attachFailed => ~result[r].proxyUsed

====
